---- MODULE Spec2Model ----
(***************************************************************************)
(* The commit-velocity analysis route of CodePulse, POST /api/analyze      *)
(* (worker/userRoutes.ts), as a state machine.                             *)
(*                                                                         *)
(* A string is a sequence of tokens; a token is an atomic run of           *)
(* characters of one class (see Class1Tokens, Class2Tokens), so that the   *)
(* regular expression, the URL parser and String.split are computed on the *)
(* text and not assumed.  An instant is a whole number of seconds.  A      *)
(* velocity is a whole number of hundredths (2.33 is 233).                 *)
(***************************************************************************)
EXTENDS Integers, Sequences, FiniteSets, TLC

VARIABLES pc, token, url, owner, repo, requests, commitsRes, summaryBodyRead,
          commitsList, details, fulfilled, validCommits, intervals, response

vars == <<pc, token, url, owner, repo, requests, commitsRes, summaryBodyRead,
          commitsList, details, fulfilled, validCommits, intervals, response>>

----------------------------------------------------------------------------
(* Bounds of the model.                                                    *)

\* longest summary list under Spec (the pipeline with its concurrency)
MaxCommits == 3
\* longest summary list under SpecCalc (rich timestamps and line counts)
MaxCalcCommits == 2
\* longest summary list under SpecUrl (rich URLs)
MaxUrlCommits == 2
\* most path segments of a URL the caller sends
MaxSegs == 3

----------------------------------------------------------------------------
(* Strings as token sequences.                                             *)

\* tokens whose characters all lie in [a-zA-Z0-9-]
Class1Tokens == {"https", "http", "ftp", "octocat", "demo", "q", "not-a-url"}
\* tokens whose characters all lie in [a-zA-Z0-9-._], one of them . or _
Class2Tokens == {"github.com", "evil.com", "my.repo"}
\* the other tokens: ":", "/", "?", "=", "~"

Slash == "/"

\* String.prototype.split('/'): the pieces between the separators, empty
\* pieces included ("/a/b/" gives "", "a", "b", "").
RECURSIVE SplitFrom(_, _)
SplitFrom(s, piece) ==
    IF s = <<>> THEN <<piece>>
    ELSE IF Head(s) = Slash THEN <<piece>> \o SplitFrom(Tail(s), <<>>)
    ELSE SplitFrom(Tail(s), Append(piece, Head(s)))

Split(s) == SplitFrom(s, <<>>)

\* Array.prototype.filter(Boolean) on strings: the empty string is falsy.
FilterNonEmpty(ps) == SelectSeq(ps, LAMBDA p : p # <<>>)

----------------------------------------------------------------------------
(* The Reference Validator.                                                *)

At(s, i) == IF i \in 1..Len(s) THEN s[i] ELSE "<end>"

\* new URL(s) on the strings the model sends: a special scheme, "://" and
\* a host; anything else throws.  pathname runs from the host to the query
\* and is "/" when empty.
SpecialSchemes == {"https", "http", "ftp"}
Hosts == {"github.com", "evil.com"}

UrlOk(s) ==
    /\ At(s, 1) \in SpecialSchemes
    /\ At(s, 2) = ":" /\ At(s, 3) = Slash /\ At(s, 4) = Slash
    /\ At(s, 5) \in Hosts

Hostname(s) == s[5]

QueryStart(s) ==
    IF \E i \in 1..Len(s) : s[i] = "?"
    THEN CHOOSE i \in 1..Len(s) : s[i] = "?" /\ \A j \in 1..(i - 1) : s[j] # "?"
    ELSE Len(s) + 1

Pathname(s) ==
    LET p == SubSeq(s, 6, QueryStart(s) - 1)
    IN  IF p = <<>> THEN <<Slash>> ELSE p

\* /https?:\/\/github\.com\/[a-zA-Z0-9-]+\/[a-zA-Z0-9-._]+/ matched with its
\* first character at token i: the pattern is not anchored.
RegexMatchAt(s, i) ==
    /\ At(s, i) \in {"http", "https"}
    /\ At(s, i + 1) = ":" /\ At(s, i + 2) = Slash /\ At(s, i + 3) = Slash
    /\ At(s, i + 4) = "github.com"
    /\ At(s, i + 5) = Slash
    /\ \E k \in 1..Len(s) :
          /\ \A j \in 1..k : At(s, i + 5 + j) \in Class1Tokens
          /\ At(s, i + 6 + k) = Slash
          /\ At(s, i + 7 + k) \in Class1Tokens \cup Class2Tokens

RegexTest(s) == \E i \in 1..Len(s) : RegexMatchAt(s, i)

\* the schema without its pattern
UrlSchemaOk_NoRegex(s) == UrlOk(s)

\* urlSchema = z.string().url().regex(...)
UrlSchemaOk(s) == UrlOk(s) /\ RegexTest(s)

\* the split without filter(Boolean)
PathParts_NoFilter(s) == Split(Pathname(s))

\* url.pathname.split('/').filter(Boolean)
PathParts(s) == FilterNonEmpty(Split(Pathname(s)))

----------------------------------------------------------------------------
(* The URLs a caller sends, built from their parts.                        *)

NoScheme == "none"
EmptySeg == <<>>
SegChoices == {EmptySeg, <<"octocat">>, <<"my.repo">>, <<"~">>}
HostedPattern == <<"https", ":", "/", "/", "github.com", "/", "octocat", "/", "demo">>

RECURSIVE PathOf(_)
PathOf(segs) ==
    IF segs = <<>> THEN <<>> ELSE <<Slash>> \o Head(segs) \o PathOf(Tail(segs))

\* parts: scheme, host, the path segments in order (an empty last segment
\* is a trailing separator), and whether a query quoting a hosted
\* repository follows.
UrlOf(parts) ==
    (IF parts.scheme = NoScheme THEN <<>> ELSE <<parts.scheme, ":", Slash, Slash>>)
    \o <<parts.host>>
    \o PathOf(parts.segs)
    \o (IF parts.query THEN <<"?", "q", "=">> \o HostedPattern ELSE <<>>)

SegLists(n) == UNION {[1..k -> SegChoices] : k \in 0..n}

UrlParts(n) ==
    [scheme : SpecialSchemes \cup {NoScheme}, host : Hosts,
     segs : SegLists(n), query : BOOLEAN]


Malformed == {<<"not-a-url">>, <<>>}

Urls(n) == {UrlOf(parts) : parts \in UrlParts(n)} \cup Malformed

----------------------------------------------------------------------------
(* Upstream responses.  An optional value is a sequence of length 0 or 1. *)

Absent == <<>>
Some(x) == <<x>>

\* A response to the summary request: its HTTP status (0: the fetch itself
\* failed), what its body is, and for a body that is a commit list, the
\* number of summaries in it.
SummaryResponses(n) ==
    [status : {200}, body : {"list"}, count : 0..n]
    \cup [status : {200}, body : {"notJson", "badShape"}, count : {0}]
    \cup [status : {0, 403, 404, 500}, body : {"error"}, count : {0}]

\* The JSON of one commit detail as far as detailedCommitSchema reads it.
CommitBodies(dates, names, adds, dels) ==
    [author : {Absent} \cup {Some(a) : a \in [name : names, date : dates]},
     message : {<<"subject", "body">>},
     stats : {Absent} \cup {Some(st) : st \in [additions : adds, deletions : dels]}]

NoCommit ==
    [author |-> Absent, message |-> <<>>, stats |-> Absent]

\* A response to a detail request: a commit (status 200), or a body that
\* is JSON of another shape, or no JSON at all, or a failed fetch.
DetailResponses(bodies) ==
    [status : {200}, body : {"commit"}, commit : bodies]
    \cup [status : {200, 403, 404}, body : {"badShape"}, commit : {NoCommit}]
    \cup [status : {200}, body : {"notJson"}, commit : {NoCommit}]
    \cup [status : {0}, body : {"error"}, commit : {NoCommit}]

----------------------------------------------------------------------------
(* The Velocity Calculator and the Result Assembler.                       *)

Max(a, b) == IF a >= b THEN a ELSE b
Abs(a) == IF a >= 0 THEN a ELSE -a

\* the difference rounded to the nearest minute instead
DifferenceInMinutes_Rounded(later, earlier) ==
    LET d == later - earlier
    IN  IF d >= 0 THEN (d + 30) \div 60 ELSE -((30 - d) \div 60)

\* date-fns differenceInMinutes: the signed number of full minutes between
\* two instants, rounded towards zero.
DifferenceInMinutes(later, earlier) ==
    LET d == later - earlier
    IN  IF d >= 0 THEN d \div 60 ELSE -((-d) \div 60)

Interval(currentCommit, previousCommit) ==
    Max(DifferenceInMinutes(currentCommit.author[1].date,
                            previousCommit.author[1].date), 1)

\* parseFloat((total / interval).toFixed(2)), in hundredths: the nearest
\* hundredth, a tie going away from zero.
ToFixed2(total, interval) ==
    LET q == (200 * Abs(total) + interval) \div (2 * interval)
    IN  IF total >= 0 THEN q ELSE -q

\* the name without the placeholder
AuthorName_NoFallback(commit) ==
    IF commit.author[1].name = Absent THEN ""
    ELSE commit.author[1].name[1]

\* currentCommit.commit.author.name || 'Unknown Author': an absent name and
\* the empty string are both falsy
AuthorName(commit) ==
    IF commit.author[1].name = Absent \/ commit.author[1].name = Some("")
    THEN "Unknown Author"
    ELSE commit.author[1].name[1]

\* the point built from the line counts of the older commit of the pair
VelocityPoint_PreviousStats(currentCommit, previousCommit) ==
    LET additions == previousCommit.stats[1].additions
        deletions == previousCommit.stats[1].deletions
    IN  [sha |-> currentCommit.sha,
         date |-> currentCommit.author[1].date,
         velocity |-> ToFixed2(additions + deletions,
                               Interval(currentCommit, previousCommit)),
         author |-> AuthorName(currentCommit),
         message |-> Head(currentCommit.message),
         additions |-> additions,
         deletions |-> deletions]

VelocityPoint(currentCommit, previousCommit) ==
    LET additions == currentCommit.stats[1].additions
        deletions == currentCommit.stats[1].deletions
    IN  [sha |-> currentCommit.sha,
         date |-> currentCommit.author[1].date,
         velocity |-> ToFixed2(additions + deletions,
                               Interval(currentCommit, previousCommit)),
         author |-> AuthorName(currentCommit),
         message |-> Head(currentCommit.message),
         additions |-> additions,
         deletions |-> deletions]

IsValidCommit(commit) == commit.stats # Absent /\ commit.author # Absent

\* a filter that stops at the first incomplete record
FilterValid_Prefix(detailedCommits) ==
    SelectSeq(detailedCommits,
              LAMBDA c : \A k \in 1..Len(detailedCommits) :
                            (detailedCommits[k].sha <= c.sha) => IsValidCommit(detailedCommits[k]))

\* lines 103-106
FilterValid(detailedCommits) == SelectSeq(detailedCommits, IsValidCommit)

\* a loop that pairs each commit with the one two places on
AnalysisLoop_SkipOne(vc) ==
    [i \in 1..(Len(vc) - 2) |-> VelocityPoint(vc[i], vc[i + 2])]

\* the loop over i = 0 .. validCommits.length - 2
AnalysisLoop(vc) ==
    [i \in 1..(Len(vc) - 1) |-> VelocityPoint(vc[i], vc[i + 1])]

LoopIntervals(vc) ==
    [i \in 1..(Len(vc) - 1) |-> Interval(vc[i], vc[i + 1])]

Reverse(s) == [i \in 1..Len(s) |-> s[Len(s) + 1 - i]]

----------------------------------------------------------------------------
(* The handler of POST /api/analyze.                                       *)

FormatError == "Invalid GitHub repository URL format."
PathError == "Invalid GitHub repository URL path."
NotFoundError == "Repository not found. Please check the URL or ensure it is public."
RateLimitError == "GitHub API rate limit exceeded. Please try again later."
TooFewError == "Not enough commits to analyze. A repository needs at least two commits."
DataError == "Invalid data structure from GitHub API."
UnexpectedError == "An unexpected error occurred during analysis."

\* c.json({ success: false, error }, status)
Failure(status, error) ==
    Some([status |-> status, success |-> FALSE, error |-> error, data |-> Absent])

\* an answer that treats an empty series as too little history
Success_NoEmpty(data) ==
    IF data = <<>>
    THEN Some([status |-> 400, success |-> FALSE, error |-> TooFewError, data |-> Absent])
    ELSE Some([status |-> 200, success |-> TRUE, error |-> "", data |-> Some(data)])

\* c.json({ success: true, data }): the status defaults to 200
Success(data) ==
    Some([status |-> 200, success |-> TRUE, error |-> "", data |-> Some(data)])

\* a catch block that reports every failure as a rate limit
Caught_AsRateLimit(isZodError) ==
    Some([status |-> 403, success |-> FALSE, error |-> RateLimitError, data |-> Absent])

\* the catch block: a ZodError is reported as a data error, anything else
\* as unexpected, both with status 500
Caught(isZodError) ==
    Failure(500, IF isZodError THEN DataError ELSE UnexpectedError)

\* headers rebuilt without the credential for the detail requests
Request_DetailNoAuth(kind, sha) ==
    [kind |-> kind, owner |-> owner', repo |-> repo', sha |-> sha,
     userAgent |-> "CodePulse-App", authorization |-> (token /\ kind = "summary")]

\* headers: User-Agent always, Authorization when GITHUB_TOKEN is set
Request(kind, sha) ==
    [kind |-> kind, owner |-> owner', repo |-> repo', sha |-> sha,
     userAgent |-> "CodePulse-App", authorization |-> token]

Init ==
    /\ pc = "idle"
    /\ token \in BOOLEAN
    /\ url = <<>>
    /\ owner = <<>>
    /\ repo = <<>>
    /\ requests = <<>>
    /\ commitsRes = Absent
    /\ summaryBodyRead = FALSE
    /\ commitsList = <<>>
    /\ details = <<>>
    /\ fulfilled = <<>>
    /\ validCommits = <<>>
    /\ intervals = <<>>
    /\ response = Absent

\* The call arrives with body { url: u }: validation, then the summary
\* request is sent and the handler awaits it.
Analyze(u) ==
    /\ pc = "idle"
    /\ url' = u
    /\ UNCHANGED <<token, commitsRes, summaryBodyRead, commitsList, details,
                   fulfilled, validCommits, intervals>>
    /\ IF ~UrlSchemaOk(u)
       THEN /\ response' = Failure(400, FormatError)
            /\ pc' = "done"
            /\ UNCHANGED <<owner, repo, requests>>
       ELSE IF Len(PathParts(u)) < 2
       THEN /\ response' = Failure(400, PathError)
            /\ pc' = "done"
            /\ UNCHANGED <<owner, repo, requests>>
       ELSE /\ owner' = PathParts(u)[1]
            /\ repo' = PathParts(u)[2]
            /\ requests' = <<Request("summary", 0)>>
            /\ response' = Absent
            /\ pc' = "summary"

\* the status checks without the one for 403
StatusBranch_No403(r) ==
    IF r.status = 404 THEN "notFound"
    ELSE IF r.status # 200 THEN "throw"
    ELSE "parse"

\* lines 84-92: what the handler does with the status of commitsRes
StatusBranch(r) ==
    IF r.status = 404 THEN "notFound"
    ELSE IF r.status = 403 THEN "rateLimited"
    ELSE IF r.status # 200 THEN "throw"
    ELSE "parse"

\* the length check off by one
TooFewCommits_OffByOne(list) == Len(list) < 1

\* line 94
TooFewCommits(list) == Len(list) < 2

\* a fan-out that leaves out the last summary
CommitDetailsRequests_DropLast(list) ==
    [j \in 1..(Len(list) - 1) |-> Request("detail", list[j])]

\* lines 97-101: one fetch per summary, all created by the map before the
\* await of line 102
CommitDetailsRequests(list) ==
    [j \in 1..Len(list) |-> Request("detail", list[j])]

\* The summary request settles with r and the handler runs on to its next
\* await (the detail batch) or to its response.  A failed fetch rejects
\* the await and lands in the catch block.
SummaryArrives(r) ==
    /\ pc = "summary"
    /\ UNCHANGED <<token, url, owner, repo, fulfilled, validCommits, intervals>>
    /\ IF r.status = 0
       THEN /\ response' = Caught(FALSE)
            /\ pc' = "done"
            /\ UNCHANGED <<requests, commitsRes, summaryBodyRead, commitsList, details>>
       ELSE /\ commitsRes' = Some(r)
            /\ IF StatusBranch(r) = "notFound"
               THEN /\ response' = Failure(404, NotFoundError)
                    /\ pc' = "done"
                    /\ UNCHANGED <<requests, summaryBodyRead, commitsList, details>>
               ELSE IF StatusBranch(r) = "rateLimited"
               THEN /\ response' = Failure(403, RateLimitError)
                    /\ pc' = "done"
                    /\ UNCHANGED <<requests, summaryBodyRead, commitsList, details>>
               ELSE IF StatusBranch(r) = "throw"
               THEN /\ response' = Caught(FALSE)
                    /\ pc' = "done"
                    /\ UNCHANGED <<requests, summaryBodyRead, commitsList, details>>
               ELSE /\ summaryBodyRead' = TRUE
                    /\ IF r.body # "list"
                       THEN /\ response' = Caught(r.body = "badShape")
                            /\ pc' = "done"
                            /\ UNCHANGED <<requests, commitsList, details>>
                       ELSE LET list == [j \in 1..r.count |-> j]
                            IN  /\ commitsList' = list
                                /\ IF TooFewCommits(list)
                                   THEN /\ response' = Failure(400, TooFewError)
                                        /\ pc' = "done"
                                        /\ UNCHANGED <<requests, details>>
                                   ELSE /\ requests' = requests \o CommitDetailsRequests(list)
                                        /\ details' = [j \in 1..Len(list) |-> Absent]
                                        /\ response' = Absent
                                        /\ pc' = "details"

\* a chain that lets a body of the wrong shape through
ChainFulfils_Lenient(r) == r.body \in {"commit", "badShape"}

\* fetch(...).then(res => res.json()).then(data => detailedCommitSchema.parse(data))
\* for one response: the chain fulfils with the commit or rejects.
ChainFulfils(r) == r.body = "commit"
ChainRejectsWithZodError(r) == r.body = "badShape"

DetailedCommit(j, r) ==
    [sha |-> commitsList[j], author |-> r.commit.author,
     message |-> r.commit.message, stats |-> r.commit.stats]

\* lines 103-129, once Promise.all has fulfilled with detailedCommits
Assemble(detailedCommits) ==
    Reverse(AnalysisLoop(FilterValid(detailedCommits)))

\* a batch that hands over its results in the order they arrived
BatchResult_ArrivalOrder(order, settled) ==
    [i \in 1..Len(order) |-> DetailedCommit(order[i], settled[order[i]][1])]

\* Promise.all: the fulfilment values in the order of the promises given
\* to it, whatever the order (order) in which they fulfilled
BatchResult(order, settled) ==
    [k \in 1..Len(settled) |-> DetailedCommit(k, settled[k][1])]

\* The detail request of summary j settles with r.  While the handler
\* awaits Promise.all: a fulfilment is noted by the batch (fulfilled holds
\* the summaries in the order their details fulfilled); a rejection rejects
\* the batch at once and the catch block answers; the last fulfilment
\* fulfils the batch and the handler computes its answer.  After the answer
\* a settlement changes nothing but the request's own state.
DetailArrives(j, r) ==
    /\ pc \in {"details", "done"}
    /\ j \in 1..Len(details)
    /\ details[j] = Absent
    /\ details' = [details EXCEPT ![j] = Some(r)]
    /\ UNCHANGED <<token, url, owner, repo, requests, commitsRes, summaryBodyRead,
                   commitsList>>
    /\ IF pc = "done"
       THEN UNCHANGED <<pc, response, fulfilled, validCommits, intervals>>
       ELSE IF ~ChainFulfils(r)
       THEN /\ response' = Caught(ChainRejectsWithZodError(r))
            /\ pc' = "done"
            /\ UNCHANGED <<fulfilled, validCommits, intervals>>
       ELSE /\ fulfilled' = Append(fulfilled, j)
            /\ IF \E k \in 1..Len(details) : k # j /\ details[k] = Absent
               THEN UNCHANGED <<pc, response, validCommits, intervals>>
               ELSE LET detailedCommits == BatchResult(fulfilled', details')
                    IN  /\ validCommits' = FilterValid(detailedCommits)
                        /\ intervals' = LoopIntervals(FilterValid(detailedCommits))
                        /\ response' = Success(Assemble(detailedCommits))
                        /\ pc' = "done"

----------------------------------------------------------------------------
(* Specifications: one machine, three families of inputs.                  *)

NextOn(urls, maxCommits, bodies) ==
    \/ pc = "idle" /\ \E u \in urls : Analyze(u)
    \/ pc = "summary" /\ \E r \in SummaryResponses(maxCommits) : SummaryArrives(r)
    \/ \E j \in 1..Len(details) :
          details[j] = Absent /\ \E r \in DetailResponses(bodies) : DetailArrives(j, r)

\* commit.author.name: a name, or none, or the empty string
Named == {Some("dev")}
Unnamed == {Absent, Some("")}

\* the pipeline and its concurrency: few URLs, coarse commit contents
PipelineUrls ==
    {UrlOf([scheme |-> "https", host |-> "github.com",
            segs |-> <<<<"octocat">>, <<"demo">>>>, query |-> FALSE]),
     <<"not-a-url">>}
PipelineBodies ==
    CommitBodies({0, 120, 360}, Named, {3}, {4}) \cup CommitBodies({0}, Unnamed, {3}, {4})

Next == NextOn(PipelineUrls, MaxCommits, PipelineBodies)
Spec == Init /\ [][Next]_vars

\* the Validator: every URL of up to MaxSegs path segments
UrlBodies == {b \in CommitBodies({0}, Named, {3}, {4}) : IsValidCommit(b)}
AllUrls == Urls(MaxSegs)

NextUrl == NextOn(AllUrls, MaxUrlCommits, UrlBodies)
SpecUrl == Init /\ [][NextUrl]_vars

\* the Calculator: timestamps 30 s, 90 s, 3 min apart, line counts of
\* either sign
CalcUrls ==
    {UrlOf([scheme |-> "https", host |-> "github.com",
            segs |-> <<<<"octocat">>, <<"demo">>>>, query |-> FALSE])}
CalcBodies == CommitBodies({0, 30, 90, 180}, Named, {-1, 0, 3}, {0, 4})

NextCalc == NextOn(CalcUrls, MaxCalcCommits, CalcBodies)
SpecCalc == Init /\ [][NextCalc]_vars

----------------------------------------------------------------------------
(* Properties.                                                             *)

Responded == pc = "done" /\ response # Absent
Answer == response[1]
DetailRequests == SelectSeq(requests, LAMBDA q : q.kind = "detail")

\* a url that fails validation: malformed, or without the host pattern, or
\* with fewer than two path segments
FailsValidation(s) ==
    \/ ~UrlOk(s)
    \/ ~RegexTest(s)
    \/ Len(FilterNonEmpty(Split(Pathname(s)))) < 2

\* C1: once a call has been received with a url that fails validation, the
\* call has ended with a failure response of status 400 and no outbound
\* request (summary or detail) has been issued, then or at any later time.
C1_InvalidUrlHaltsBeforeNetwork ==
    (pc # "idle" /\ FailsValidation(url)) =>
        /\ Responded
        /\ Answer.status = 400
        /\ ~Answer.success
        /\ requests = <<>>

C1_Witness ==
    /\ Responded
    /\ url = <<"not-a-url">>
    /\ Answer.status = 400
    /\ requests = <<>>

\* C2: every well-formed URL whose host is not github.com is rejected with
\* status 400 (and so never reaches the network), even when the host
\* pattern appears elsewhere in the string.
C2_ForeignHostRejected ==
    (pc # "idle" /\ UrlOk(url) /\ Hostname(url) # "github.com") =>
        /\ Responded
        /\ Answer.status = 400
        /\ requests = <<>>

\* the first two non-empty segments of a URL's parts
NonEmptySegs(parts) == SelectSeq(parts.segs, LAMBDA g : g # EmptySeg)

\* the accepted shape: http(s)://github.com/<owner>/<name>, then any
\* further segments or a trailing separator, and any query
AcceptedShape(parts) ==
    /\ parts.scheme \in {"http", "https"}
    /\ parts.host = "github.com"
    /\ Len(parts.segs) >= 2
    /\ parts.segs[1] = <<"octocat">>
    /\ parts.segs[2] \in {<<"octocat">>, <<"my.repo">>}

\* url, expected owner, expected name for every URL of the model with two
\* non-empty segments
ExpectedExtraction ==
    {<<UrlOf(parts), NonEmptySegs(parts)[1], NonEmptySegs(parts)[2]>> :
        parts \in {x \in UrlParts(MaxSegs) : Len(NonEmptySegs(x)) >= 2}}

AcceptedShapeUrls == {UrlOf(parts) : parts \in {x \in UrlParts(MaxSegs) : AcceptedShape(x)}}

C4_NotFoundAndRateLimit ==
    (commitsRes # Absent /\ commitsRes[1].status \in {403, 404}) =>
        /\ Responded
        /\ ~Answer.success
        /\ Answer.status = commitsRes[1].status
        /\ Answer.error = (IF commitsRes[1].status = 404 THEN NotFoundError
                           ELSE RateLimitError)
        /\ ~summaryBodyRead
        /\ DetailRequests = <<>>

C4_Witness ==
    /\ Responded
    /\ commitsRes # Absent
    /\ commitsRes[1].status = 403
    /\ Answer.status = 403

\* C5: when the summary request succeeded with fewer than two summaries,
\* the call has ended with the 400 'at least two commits' failure and no
\* detail request was issued.
C5_InsufficientHistory ==
    (/\ commitsRes # Absent
     /\ commitsRes[1].status = 200
     /\ commitsRes[1].body = "list"
     /\ commitsRes[1].count < 2) =>
        /\ Responded
        /\ Answer = Failure(400, TooFewError)[1]
        /\ DetailRequests = <<>>
        /\ details = <<>>

C5_Witness ==
    /\ Responded
    /\ commitsRes # Absent
    /\ commitsRes[1].body = "list"
    /\ commitsRes[1].count = 1
    /\ Answer.status = 400

Settled(j) == details[j] # Absent
FailedValidation(j) == Settled(j) /\ details[j][1].body = "badShape"
FailedOtherwise(j) == Settled(j) /\ details[j][1].body \in {"notJson", "error"}
Succeeded == Responded /\ Answer.success
Data == Answer.data[1]
DateOf(commit) == commit.author[1].date
ChangesOf(commit) == commit.stats[1].additions + commit.stats[1].deletions
\* the point of the loop's i-th iteration: the output is reversed
PointOf(i) == Data[Len(Data) + 1 - i]

\* C6 as claimed: once a detail response has failed structural validation,
\* the call has failed with status 500 and the 'invalid data structure'
\* message, whatever the other detail responses are.
C6_AnyBadDetailIsDataError ==
    (\E j \in 1..Len(details) : FailedValidation(j)) =>
        /\ Responded
        /\ Answer = Failure(500, DataError)[1]

\* C6 as amended: once a detail response has failed structural validation,
\* the call has failed with status 500 and carries no velocity points,
\* whatever the other detail responses are; the message is 'invalid data
\* structure' unless another detail request failed as a fetch or as
\* non-JSON, in which case it is that or the generic message.
C6_BadDetailFailsWholeCall ==
    (\E j \in 1..Len(details) : FailedValidation(j)) =>
        /\ Responded
        /\ ~Answer.success
        /\ Answer.status = 500
        /\ Answer.data = Absent
        /\ Answer.error \in {DataError, UnexpectedError}
        /\ (\A j \in 1..Len(details) : ~FailedOtherwise(j)) => Answer.error = DataError

C6_Witness ==
    /\ Responded
    /\ Len(details) = 3
    /\ FailedValidation(2)
    /\ Settled(1) /\ details[1][1].body = "commit" /\ IsValidCommit(details[1][1].commit)
    /\ Settled(3) /\ details[3][1].body = "commit" /\ IsValidCommit(details[3][1].commit)
    /\ Answer = Failure(500, DataError)[1]

\* C7: a successful call over k valid commits returns k-1 points (none for
\* k = 0), the i-th of the loop being the point of the adjacent pair
\* (i, i+1): it has the sha of commit i and the interval between the
\* timestamps of commits i and i+1.
C7_OnePointPerAdjacentPair ==
    Succeeded =>
        /\ Len(Data) = (IF Len(validCommits) = 0 THEN 0 ELSE Len(validCommits) - 1)
        /\ Len(intervals) = Len(Data)
        /\ \A i \in 1..Len(Data) :
              LET d == DateOf(validCommits[i]) - DateOf(validCommits[i + 1])
              IN  /\ PointOf(i).sha = validCommits[i].sha
                  /\ intervals[i] = (IF d >= 120 THEN d \div 60 ELSE 1)
                  /\ PointOf(i).velocity * intervals[i] \in
                        {100 * ChangesOf(validCommits[i]) + e : e \in -intervals[i]..intervals[i]}

C7_Witness ==
    /\ Succeeded
    /\ Len(validCommits) = 3
    /\ Len(Data) = 2
    /\ intervals = <<4, 2>>

\* C8: the points of a successful response are in ascending order of date.
C8_AscendingByDate ==
    Succeeded => \A i \in 1..(Len(Data) - 1) : Data[i].date <= Data[i + 1].date

\* the difference of two instants in minutes, rounded to the nearest
RoundedMinutes(d) == IF d >= 0 THEN (d + 30) \div 60 ELSE -((30 - d) \div 60)

\* C9 as claimed: the interval of every pair is max(1, the difference of
\* the two timestamps rounded to whole minutes).
C9_IntervalIsRoundedDifference ==
    Succeeded =>
        \A i \in 1..Len(intervals) :
            LET d == DateOf(validCommits[i]) - DateOf(validCommits[i + 1])
            IN  intervals[i] = (IF RoundedMinutes(d) >= 1 THEN RoundedMinutes(d) ELSE 1)

\* C9 as amended: the interval of every pair is max(1, the number of full
\* minutes between the two timestamps, rounded towards zero); it is a whole
\* number >= 1, and commits 30 seconds apart have interval 1 and a
\* velocity equal to their total changes.
C9_IntervalIsFullMinutes ==
    Succeeded =>
        \A i \in 1..Len(intervals) :
            LET d == DateOf(validCommits[i]) - DateOf(validCommits[i + 1])
                m == intervals[i]
            IN  /\ m \in Nat /\ m >= 1
                /\ (d < 120) => m = 1
                /\ (d >= 120) => (60 * m <= d /\ d < 60 * (m + 1))
                /\ (d = 30) => PointOf(i).velocity = 100 * ChangesOf(validCommits[i])

C9_Witness ==
    /\ Succeeded
    /\ Len(intervals) = 1
    /\ DateOf(validCommits[1]) - DateOf(validCommits[2]) = 30
    /\ intervals[1] = 1
    /\ ChangesOf(validCommits[1]) = 7
    /\ Data[1].velocity = 700

\* C10: every point carries the sha, date, additions and deletions of the
\* current commit of its pair, and its velocity is (additions + deletions)
\* / interval to the nearest hundredth; 7 changes over 3 minutes give 2.33.
C10_PointOfCurrentCommit ==
    Succeeded =>
        /\ Len(Data) = Len(intervals)
        /\ \A i \in 1..Len(Data) :
              LET cur == validCommits[i]
                  p == PointOf(i)
                  m == intervals[i]
              IN  /\ p.sha = cur.sha
                  /\ p.date = DateOf(cur)
                  /\ p.additions = cur.stats[1].additions
                  /\ p.deletions = cur.stats[1].deletions
                  /\ 2 * Abs(100 * ChangesOf(cur) - p.velocity * m) <= m
                  /\ (ChangesOf(cur) = 7 /\ m = 3) => p.velocity = 233

C10_Witness ==
    /\ Succeeded
    /\ Len(Data) = 1
    /\ ChangesOf(validCommits[1]) = 7
    /\ validCommits[2].stats[1].additions = -1
    /\ intervals[1] = 3
    /\ Data[1].velocity = 233
    /\ Data[1].additions = 3 /\ Data[1].deletions = 4

\* the detail record of summary j, once it has arrived as a commit
IsCommit(j) == Settled(j) /\ details[j][1].body = "commit"
Body(j) == details[j][1].commit
\* the summaries whose detail has both a statistics pair and an author
Kept == {j \in 1..Len(details) : IsCommit(j) /\ Body(j).stats # Absent /\ Body(j).author # Absent}

\* C11: in a successful call the valid commits are exactly the detail
\* records that have both statistics and an author, each once and in the
\* order of the summary list, and dropping the others raises no error; with
\* three commits of which the middle one lacks statistics the result is one
\* point, of the first commit, over the gap between the first and the third.
C11_ReconciliationKeepsOrder ==
    /\ Succeeded =>
          /\ Len(validCommits) = Cardinality(Kept)
          /\ \A i \in 1..Len(validCommits) :
                /\ validCommits[i].sha \in Kept
                /\ validCommits[i].author = Body(validCommits[i].sha).author
                /\ validCommits[i].stats = Body(validCommits[i].sha).stats
          /\ \A i \in 1..(Len(validCommits) - 1) :
                validCommits[i].sha < validCommits[i + 1].sha
    /\ (/\ pc = "done"
        /\ Len(details) = 3
        /\ \A j \in 1..3 : IsCommit(j)
        /\ Kept = {1, 3}) =>
          /\ Succeeded
          /\ Len(Data) = 1
          /\ Data[1].sha = 1
          /\ Data[1].date = Body(1).author[1].date
          /\ LET gap == Body(1).author[1].date - Body(3).author[1].date
             IN  intervals = <<IF gap >= 120 THEN gap \div 60 ELSE 1>>

C11_Witness ==
    /\ Succeeded
    /\ Len(details) = 3
    /\ Kept = {1, 3}
    /\ Body(2).stats = Absent /\ Body(2).author # Absent
    /\ Body(1).author[1].date = 360 /\ Body(3).author[1].date = 0
    /\ Len(Data) = 1
    /\ Data[1].sha = 1
    /\ intervals = <<6>>

\* C12: when every detail response of a call with at least two summaries
\* validated and fewer than two of them are valid commits, the call has
\* answered with success, status 200 and the empty sequence as data.
C12_EmptySeriesIsSuccess ==
    (/\ Len(details) >= 2
     /\ \A j \in 1..Len(details) : IsCommit(j)
     /\ Cardinality(Kept) < 2) =>
        /\ Responded
        /\ Answer.success
        /\ Answer.status = 200
        /\ Answer.data = Some(<<>>)

C12_Witness ==
    /\ Responded
    /\ Len(details) = 3
    /\ \A j \in 1..3 : IsCommit(j)
    /\ Cardinality(Kept) = 1
    /\ Answer.success
    /\ Answer.data = Some(<<>>)

\* the i-th of the kept summaries, in the order of the summary list
IthKept(i) == CHOOSE j \in Kept : Cardinality({k \in Kept : k < j}) = i - 1

\* C13: the output of a successful call is a function of the upstream
\* history alone, whatever order the detail requests completed in: the
\* i-th point of the loop is the point of the i-th and (i+1)-th kept
\* summaries in the order of the summary list.
C13_OutputIndependentOfCompletionOrder ==
    Succeeded =>
        /\ Len(Data) = (IF Kept = {} THEN 0 ELSE Cardinality(Kept) - 1)
        /\ \A i \in 1..Len(Data) :
              LET cur == Body(IthKept(i))
                  prev == Body(IthKept(i + 1))
                  gap == cur.author[1].date - prev.author[1].date
                  m == IF gap >= 120 THEN gap \div 60 ELSE 1
              IN  /\ PointOf(i).sha = commitsList[IthKept(i)]
                  /\ PointOf(i).date = cur.author[1].date
                  /\ PointOf(i).additions = cur.stats[1].additions
                  /\ PointOf(i).deletions = cur.stats[1].deletions
                  /\ 2 * Abs(100 * (cur.stats[1].additions + cur.stats[1].deletions)
                             - PointOf(i).velocity * m) <= m

C13_Witness ==
    /\ Succeeded
    /\ fulfilled = <<3, 1, 2>>
    /\ Kept = {1, 2, 3}
    /\ Body(1).author[1].date = 360
    /\ Body(2).author[1].date = 120
    /\ Body(3).author[1].date = 0
    /\ Len(Data) = 2
    /\ Data[1].sha = 2 /\ Data[2].sha = 1

\* C14: every request of a call carries the client-identifying header, and
\* carries the authorization header exactly when a credential is configured.
C14_HeadersOnEveryRequest ==
    \A i \in 1..Len(requests) :
        /\ requests[i].userAgent = "CodePulse-App"
        /\ requests[i].authorization = token

C14_Witness ==
    /\ token
    /\ Len(requests) = 4
    /\ requests[1].kind = "summary" /\ requests[1].authorization
    /\ \A i \in 2..4 : requests[i].kind = "detail" /\ requests[i].authorization

\* C15: every point of a successful response has a non-negative velocity.
C15_VelocityNonNegative ==
    Succeeded => \A i \in 1..Len(Data) : Data[i].velocity >= 0

\* one detail request per summary, in the order of the summary list, all
\* issued by the time the handler awaits the batch
OneRequestPerSummary ==
    (pc = "details" \/ details # <<>>) =>
        /\ Len(DetailRequests) = Len(commitsList)
        /\ Len(details) = Len(commitsList)
        /\ \A j \in 1..Len(commitsList) : DetailRequests[j].sha = commitsList[j]

Rejected(j) == Settled(j) /\ details[j][1].body # "commit"

\* C16 as claimed: one request per summary, all issued before the batch is
\* awaited, and no response of the call, success or failure, while a detail
\* request is still pending.
C16_NoResponseWhilePending ==
    /\ OneRequestPerSummary
    /\ Responded => \A j \in 1..Len(details) : Settled(j)

\* C16 as amended: one request per summary, all issued before the batch is
\* awaited; a success response is given only when every detail request has
\* fulfilled; a failure response is given at the first rejection, whatever
\* is still pending, so the handler never waits with a rejection in hand.
C16_WaitsOnlyForSuccess ==
    /\ OneRequestPerSummary
    /\ Succeeded => \A j \in 1..Len(details) : IsCommit(j)
    /\ (pc = "details") => \A j \in 1..Len(details) : ~Rejected(j)
    /\ (pc = "details") => response = Absent

C16_Witness ==
    /\ Responded
    /\ ~Answer.success
    /\ Len(details) = 3
    /\ IsCommit(1)
    /\ FailedValidation(2)
    /\ ~Settled(3)
    /\ Len(DetailRequests) = 3

\* C17 as claimed: every valid commit has its author name present, and no
\* point carries the placeholder author.
C17_NoPlaceholderAuthor ==
    Succeeded =>
        /\ \A i \in 1..Len(validCommits) : validCommits[i].author[1].name \in Named
        /\ \A i \in 1..Len(Data) : Data[i].author # "Unknown Author"

\* C17 as amended: every valid commit has its author (with the timestamp)
\* and its statistics present; its author name may be absent or empty, and
\* a point carries the placeholder author exactly then, and the name
\* otherwise.
C17_PlaceholderIffNameMissing ==
    Succeeded =>
        /\ \A i \in 1..Len(validCommits) :
              /\ validCommits[i].author # Absent
              /\ validCommits[i].stats # Absent
        /\ \A i \in 1..Len(Data) :
              LET name == validCommits[i].author[1].name
              IN  /\ (name \in Unnamed) <=> (PointOf(i).author = "Unknown Author")
                  /\ (name \notin Unnamed) => PointOf(i).author = name[1]

C17_Witness ==
    /\ Succeeded
    /\ Len(Data) = 2
    /\ validCommits[1].author[1].name = Absent
    /\ validCommits[2].author[1].name = Some("")
    /\ Data[1].author = "Unknown Author"
    /\ Data[2].author = "Unknown Author"

\* C18: once the detail requests have been issued the call answers only
\* with 200 or 500, and a detail response of status 403 or 404 has the call
\* answer 500 with the data or generic message, never 403 or 404.
C18_DetailStatusNotPropagated ==
    /\ (details # <<>> /\ Responded) => Answer.status \in {200, 500}
    /\ (\E j \in 1..Len(details) : Settled(j) /\ details[j][1].status \in {403, 404}) =>
          /\ Responded
          /\ Answer.status = 500
          /\ ~Answer.success
          /\ Answer.error \in {DataError, UnexpectedError}

C18_Witness ==
    /\ Responded
    /\ Len(details) = 2
    /\ Settled(1) /\ details[1][1].status = 403
    /\ ~Settled(2)
    /\ Answer = Failure(500, DataError)[1]

====
